---- MODULE Spec2Model ----
(***************************************************************************)
(* Model of the pygine sprite engine of the Buryatia repository:           *)
(*   - AnimationManager (src/pygine/animation.py): the per-entity frame    *)
(*     timing state machine (play / pause / stop / loop / finish);         *)
(*   - AnimatedSprite hitbox geometry (src/pygine/sprite.py): the hitbox   *)
(*     that collides_with tests and the outline that debug_draw draws.     *)
(*                                                                         *)
(* Time is counted in ticks.  An Animation's fps is a positive float and   *)
(* the code only ever uses frame_duration = 1.0 / fps, so an animation is  *)
(* represented by the number of ticks one frame lasts; dt is a number of   *)
(* ticks as well.  start_time (time.time()) is written by play_animation   *)
(* and read by nothing, so it is not part of the state.                    *)
(*                                                                         *)
(* Lengths that are floats in the code (_position, hitbox_radius, the      *)
(* corners) are counted in half pixels, so that x.5 is a value; lengths    *)
(* that are ints in the code (frame_size, collision_offset, the custom     *)
(* hitbox size, what pygame.draw receives) are counted in pixels.  The     *)
(* sprites are unrotated (rotation = 0, which set_rotation(0) and          *)
(* set_rotation(360) give): the corners of a rotated hitbox are products   *)
(* with math.cos and math.sin, whose rounding no integer reproduces.       *)
(* collision_rect and the image are written by the setters and read by no  *)
(* collision or debug-draw code, so they are not part of the state.        *)
(***************************************************************************)
EXTENDS Integers, Sequences, FiniteSets, TLC

\* ------------------------------------------------------------------ bounds

\* Longest frame list of an animation.
MaxFrames == 2

\* Largest dt passed to update, in ticks.
MaxDt == 2

\* Largest |x| and |y| of a sprite position, in half pixels.
MaxCoord == 2

\* Largest hitbox_radius, in half pixels.
MaxRadius == 3

\* Largest width and height of a custom hitbox, in pixels.
MaxHitboxSize == 2

\* Scene objects created with the same name.
MaxSceneObjects == 2

\* Latest reading of the clock, in time units.
MaxTicks == 12

\* Longest time a pass of the game loop takes beyond 1 / fps, in time units.
MaxLag == 2

\* Largest space_press_count a dialogue scene is followed to.
MaxPresses == 11

\* Largest max_length of a TextInput.
MaxLength == 2

\* Longest text of one TEXTINPUT event and longest text passed to set_text.
MaxTyped == 3

\* ---------------------------------------------------- AnimationManager state

VARIABLES
    animations,              \* dict name -> Animation (a function on the registered names)
    current_animation,       \* the Animation object being played, or NoAnimation
    current_animation_name,  \* its name, or "None"
    current_frame_index,
    frame_timer,
    is_playing,
    is_paused,
    finished,
    result,                  \* what the last call returned: "True", "False" or "None"
    last_call,               \* the last call and its arguments
    pre_pause                \* history: the manager state before it became paused

\* ------------------------------------------------------ AnimatedSprite state

VARIABLES
    sprite,                  \* the sprite's transform and hitbox fields
    drawn,                   \* the outline the last call handed to pygame.draw, if any
    collided                 \* what the last call returned if it was collides_with, else "None"

\* --------------------------------------------- collides_with as a function

VARIABLES
    pair,                    \* the two sprites of a call self.collides_with(other)
    returned                 \* what the call returned, "None" before it is made

\* -------------------------------------------------------- SceneManager state

VARIABLES
    scenes,                  \* dict name -> Scene
    current_scene,           \* the current Scene, or NoScene
    active,                  \* Scene.active of every Scene object
    hooks,                   \* the on_exit / on_enter calls the last call made, in order
    switched                 \* what the last call returned if it was switch_to, else "None"

\* ---------------------------------------------------------------- Game state

VARIABLES
    game,                    \* the Game's running, paused, dt and last_time
    ticks,                   \* pygame.time.get_ticks(), the clock the loop reads
    frame                    \* history: what the last pass of the loop did and how long it took

\* ---------------------------------------------------- wait_for_animation state

VARIABLES
    waiting                  \* where a call wait_for_animation(sprite) is: "idle", "waiting", "returned"

\* ------------------------------------------------------ dialogue scene state

VARIABLES
    dialogue,                \* a dialogue scene's space_press_count, space_cooldown, bao_moving, ...
    told                     \* history: what the last update call of the scene did

\* -------------------------------------------------------------- input state

VARIABLES
    input,                   \* the module globals of utils.py: _pressed_keys, _just_pressed_keys, ...
    polled                   \* history: the keys that were down at the last update_input_state()

\* ------------------------------------------------------------- Button state

VARIABLES
    button,                  \* a Button's enabled, visible, pressed and whether it has a callback
    clicked                  \* history: the last event handled, what was returned, whether the callback ran

\* ---------------------------------------------------------- TextInput state

VARIABLES
    text_input               \* a TextInput's text, cursor_pos, max_length and active

\* ------------------------------------------------------- fact popup state

VARIABLES
    facts,                   \* a game scene's fact buttons and popups
    fact_seen,               \* history: the popups that have been visible
    fact_event               \* history: the event of the last handle_event call

mgr == <<animations, current_animation, current_animation_name,
         current_frame_index, frame_timer, is_playing, is_paused, finished>>

playback == <<current_animation, current_animation_name,
              current_frame_index, frame_timer, is_playing, is_paused, finished>>

mgr_vars == <<mgr, result, last_call, pre_pause>>

sprite_vars == <<sprite, drawn, collided>>

collision_vars == <<pair, returned>>

scene_vars == <<scenes, current_scene, active, hooks, switched>>

\* The state added to the sprite's by the rest of the engine.
game_vars == <<game, ticks, frame>>

dialogue_vars == <<dialogue, told>>

input_vars == <<input, polled>>

button_vars == <<button, clicked>>

fact_vars == <<facts, fact_seen, fact_event>>

engine_vars == <<scene_vars, game_vars, waiting, dialogue_vars, input_vars, button_vars,
                 text_input, fact_vars>>

vars == <<mgr_vars, sprite_vars, collision_vars, engine_vars>>

\* What the calls on an AnimationManager, and the calls on a sprite, leave alone.
outside_mgr == <<sprite_vars, collision_vars, engine_vars>>

outside_sprite == <<mgr_vars, collision_vars, engine_vars>>

outside_collision == <<mgr_vars, sprite_vars, engine_vars>>

sprite_state == <<mgr_vars, sprite_vars, collision_vars>>

outside_scenes ==
    <<sprite_state, game_vars, waiting, dialogue_vars, input_vars, button_vars,
      text_input, fact_vars>>

outside_game ==
    <<sprite_state, scene_vars, waiting, dialogue_vars, input_vars, button_vars,
      text_input, fact_vars>>

outside_wait ==
    <<sprite_vars, collision_vars, scene_vars, game_vars, dialogue_vars, input_vars, button_vars,
      text_input, fact_vars>>

outside_dialogue ==
    <<sprite_state, scene_vars, game_vars, waiting, input_vars, button_vars,
      text_input, fact_vars>>

outside_input ==
    <<sprite_state, scene_vars, game_vars, waiting, dialogue_vars, button_vars,
      text_input, fact_vars>>

outside_button ==
    <<sprite_state, scene_vars, game_vars, waiting, dialogue_vars, input_vars,
      text_input, fact_vars>>

outside_text ==
    <<sprite_state, scene_vars, game_vars, waiting, dialogue_vars, input_vars, button_vars,
      fact_vars>>

outside_facts ==
    <<sprite_state, scene_vars, game_vars, waiting, dialogue_vars, input_vars, button_vars,
      text_input>>

\* ---------------------------------------------------------------- Animation

Names == {"idle", "walk"}

\* Optional[Animation] = None
NoAnimation == [name |-> "None", frames |-> << >>, frame_duration |-> 0, loop |-> FALSE]

\* The frame lists add_animation is called with: frame indices 0 .. n-1.
FrameLists == {[i \in 1..n |-> i - 1] : n \in 1..MaxFrames}

\* The frame durations 1.0 / fps of the animations registered, in ticks: a
\* frame that one update of a single tick ends, and a frame that needs the
\* dt of several updates to accumulate.
FrameDurations == {1, 2}

\* The Animation objects that pass __post_init__: frames is not empty and
\* fps > 0, so that frame_duration = 1.0 / fps is a positive duration.
Animation == [name : Names, frames : FrameLists,
              frame_duration : FrameDurations, loop : BOOLEAN]

\* self.animations = {}
NoAnimations == [n \in {} |-> NoAnimation]

Call(op, name, restart, dt) == [op |-> op, name |-> name, restart |-> restart, dt |-> dt]

NoCall == Call("__init__", "None", FALSE, 0)

\* The manager state as one value (for the pre_pause history variable).
Snapshot == [animations |-> animations,
             current_animation |-> current_animation,
             current_animation_name |-> current_animation_name,
             current_frame_index |-> current_frame_index,
             frame_timer |-> frame_timer,
             is_playing |-> is_playing,
             is_paused |-> is_paused,
             finished |-> finished]

NoSnapshot == [animations |-> NoAnimations,
               current_animation |-> NoAnimation,
               current_animation_name |-> "None",
               current_frame_index |-> -1,
               frame_timer |-> -1,
               is_playing |-> FALSE,
               is_paused |-> FALSE,
               finished |-> FALSE]

\* AnimationManager.__init__
InitManager ==
    /\ animations = NoAnimations
    /\ current_animation = NoAnimation
    /\ current_animation_name = "None"
    /\ current_frame_index = 0
    /\ frame_timer = 0
    /\ is_playing = FALSE
    /\ is_paused = FALSE
    /\ finished = FALSE
    /\ result = "None"
    /\ last_call = NoCall
    /\ pre_pause = NoSnapshot

\* add_animation: self.animations[animation.name] = animation
add_animation(animation) ==
    /\ animations' = [n \in DOMAIN animations \cup {animation.name} |->
                        IF n = animation.name THEN animation ELSE animations[n]]
    /\ UNCHANGED playback
    /\ result' = "None"
    /\ last_call' = Call("add_animation", animation.name, FALSE, 0)
    /\ UNCHANGED outside_mgr
    /\ pre_pause' = NoSnapshot

\* play_animation, lines 81-82: the name is not registered.
play_not_found_stops ==
    /\ is_playing' = FALSE
    /\ is_paused' = FALSE
    /\ current_frame_index' = 0
    /\ frame_timer' = 0
    /\ finished' = FALSE
    /\ UNCHANGED <<animations, current_animation, current_animation_name>>
    /\ result' = "False"

play_not_found ==
    /\ UNCHANGED mgr
    /\ result' = "False"

\* play_animation, lines 87-92: "already playing this animation".
already_playing_unless_paused(name, restart) ==
    /\ current_animation_name = name
    /\ is_playing
    /\ ~is_paused
    /\ ~restart
    /\ ~finished

already_playing_ignoring_restart(name, restart) ==
    /\ current_animation_name = name
    /\ is_playing
    /\ ~finished

already_playing(name, restart) ==
    /\ current_animation_name = name
    /\ is_playing
    /\ ~restart
    /\ ~finished

\* play_animation, lines 96-105: start the new animation.
start_animation(name) ==
    /\ current_animation' = animations[name]
    /\ current_animation_name' = name
    /\ current_frame_index' = 0
    /\ frame_timer' = 0
    /\ is_playing' = TRUE
    /\ is_paused' = FALSE
    /\ finished' = FALSE
    /\ UNCHANGED animations
    /\ result' = "True"

play_animation(name, restart) ==
    /\ IF name \notin DOMAIN animations
       THEN play_not_found
       ELSE IF already_playing(name, restart)
            THEN UNCHANGED mgr /\ result' = "True"
            ELSE start_animation(name)
    /\ last_call' = Call("play_animation", name, restart, 0)
    /\ UNCHANGED outside_mgr
    /\ pre_pause' = NoSnapshot

\* The assignments of stop().
stop_keeps_finished ==
    /\ is_playing' = FALSE
    /\ is_paused' = FALSE
    /\ current_frame_index' = 0
    /\ frame_timer' = 0
    /\ UNCHANGED finished

stop_fields ==
    /\ is_playing' = FALSE
    /\ is_paused' = FALSE
    /\ current_frame_index' = 0
    /\ frame_timer' = 0
    /\ finished' = FALSE

stop ==
    /\ stop_fields
    /\ UNCHANGED <<animations, current_animation, current_animation_name>>
    /\ result' = "None"
    /\ last_call' = Call("stop", "None", FALSE, 0)
    /\ UNCHANGED outside_mgr
    /\ pre_pause' = NoSnapshot

pause ==
    /\ is_paused' = IF is_playing THEN TRUE ELSE is_paused
    /\ UNCHANGED <<animations, current_animation, current_animation_name,
                   current_frame_index, frame_timer, is_playing, finished>>
    /\ result' = "None"
    /\ last_call' = Call("pause", "None", FALSE, 0)
    /\ UNCHANGED outside_mgr
    /\ pre_pause' = IF is_paused THEN pre_pause ELSE Snapshot

resume ==
    /\ is_paused' = IF is_playing /\ is_paused THEN FALSE ELSE is_paused
    /\ UNCHANGED <<animations, current_animation, current_animation_name,
                   current_frame_index, frame_timer, is_playing, finished>>
    /\ result' = "None"
    /\ last_call' = Call("resume", "None", FALSE, 0)
    /\ UNCHANGED outside_mgr
    /\ pre_pause' = NoSnapshot

\* update, line 132: nothing to advance.
update_idle_ignoring_pause ==
    ~is_playing \/ current_animation = NoAnimation

update_idle ==
    ~is_playing \/ is_paused \/ current_animation = NoAnimation

\* update, lines 148-149: a looping animation wraps around.
end_of_loop_finishes ==
    /\ current_frame_index' = 0
    /\ finished' = TRUE
    /\ UNCHANGED is_playing

end_of_loop ==
    /\ current_frame_index' = 0
    /\ UNCHANGED <<is_playing, finished>>

\* update, lines 150-153: a non-looping animation ends on its last frame.
end_of_animation_keeps_playing ==
    /\ current_frame_index' = Len(current_animation.frames) - 1
    /\ finished' = TRUE
    /\ UNCHANGED is_playing

end_of_animation ==
    /\ current_frame_index' = Len(current_animation.frames) - 1
    /\ finished' = TRUE
    /\ is_playing' = FALSE

update(dt) ==
    /\ IF update_idle
       THEN UNCHANGED mgr
       ELSE IF finished /\ ~current_animation.loop
            THEN UNCHANGED mgr
            ELSE /\ UNCHANGED <<animations, current_animation,
                                current_animation_name, is_paused>>
                 /\ IF frame_timer + dt >= current_animation.frame_duration
                    THEN /\ frame_timer' = 0
                         /\ IF current_frame_index + 1 >= Len(current_animation.frames)
                            THEN IF current_animation.loop
                                 THEN end_of_loop
                                 ELSE end_of_animation
                            ELSE /\ current_frame_index' = current_frame_index + 1
                                 /\ UNCHANGED <<is_playing, finished>>
                    ELSE /\ frame_timer' = frame_timer + dt
                         /\ UNCHANGED <<current_frame_index, is_playing, finished>>
    /\ result' = "None"
    /\ last_call' = Call("update", "None", FALSE, dt)
    /\ UNCHANGED outside_mgr
    /\ UNCHANGED pre_pause

\* remove_animation, line 225: the removed animation is the current one.
removes_any(name) == TRUE

removes_current(name) == current_animation_name = name

remove_animation(name) ==
    /\ IF name \in DOMAIN animations
       THEN /\ IF removes_current(name)
               THEN stop_fields
               ELSE UNCHANGED <<current_frame_index, frame_timer,
                                is_playing, is_paused, finished>>
            /\ animations' = [n \in DOMAIN animations \ {name} |-> animations[n]]
            /\ UNCHANGED <<current_animation, current_animation_name>>
            /\ result' = "True"
       ELSE /\ UNCHANGED mgr
            /\ result' = "False"
    /\ last_call' = Call("remove_animation", name, FALSE, 0)
    /\ UNCHANGED outside_mgr
    /\ pre_pause' = NoSnapshot

clear_animations ==
    /\ stop_fields
    /\ animations' = NoAnimations
    /\ UNCHANGED <<current_animation, current_animation_name>>
    /\ result' = "None"
    /\ last_call' = Call("clear_animations", "None", FALSE, 0)
    /\ UNCHANGED outside_mgr
    /\ pre_pause' = NoSnapshot

\* get_animation_progress as the fraction <<numerator, denominator>>:
\* (current_frame_index + frame_timer / frame_duration) / len(frames), capped by min(1.0, .).
get_animation_progress ==
    IF current_animation = NoAnimation \/ current_animation.frames = << >>
    THEN <<0, 1>>
    ELSE LET num == current_frame_index * current_animation.frame_duration + frame_timer
             den == Len(current_animation.frames) * current_animation.frame_duration
         IN  IF num >= den THEN <<1, 1>> ELSE <<num, den>>

is_finished == finished

\* ---------------------------------------------------------- AnimatedSprite

\* frame_size of the sprite: an odd width, an even height (pixels).
FrameSize == <<3, 2>>

Coords == (0 - MaxCoord)..MaxCoord

Radii == 1..MaxRadius

HitboxSizes == 1..MaxHitboxSize

Offsets == {<<0, 0>>, <<1, -1>>}

\* The angles set_rotation is called with.
Angles == {0, 360}

Scales == {1, 2}

\* self.hitbox_radius = None
NoRadius == -1

\* self.custom_hitbox_size = None
NoSize == << >>

\* AnimatedSprite.__init__ (position is a tuple of ints, in pixels).
AnimatedSprite(frame_size, position) ==
    [frame_size |-> frame_size,
     position |-> <<2 * position[1], 2 * position[2]>>,
     rotation |-> 0,
     scale |-> 1,
     collision_offset |-> <<0, 0>>,
     custom_hitbox_size |-> NoSize,
     hitbox_shape |-> "rect",
     hitbox_radius |-> NoRadius]

\* No sprite at all.
NoSprite == [AnimatedSprite(<<0, 0>>, <<0, 0>>) EXCEPT !.hitbox_shape = "None"]

\* int(v) of a float v counted in half pixels: truncation towards zero, in pixels.
int(v) == IF v >= 0 THEN v \div 2 ELSE 0 - ((0 - v) \div 2)

\* The centre every collision routine and debug_draw compute, in pixels:
\* (int(_position[0]) + collision_offset[0], int(_position[1]) + collision_offset[1]).
hitbox_center(s) ==
    <<int(s.position[1]) + s.collision_offset[1],
      int(s.position[2]) + s.collision_offset[2]>>

\* _get_corners: the four world corners of the rectangle hitbox, in half
\* pixels.  With rotation = 0 the corners are not rotated (line 450).
get_corners(s) ==
    LET width  == IF s.custom_hitbox_size # NoSize
                  THEN s.custom_hitbox_size[1]
                  ELSE s.frame_size[1] * s.scale
        height == IF s.custom_hitbox_size # NoSize
                  THEN s.custom_hitbox_size[2]
                  ELSE s.frame_size[2] * s.scale
        center == hitbox_center(s)
        \* width / 2 pixels is width half pixels
        half_w == (2 * width) \div 2
        half_h == (2 * height) \div 2
        corners == << <<0 - half_w, 0 - half_h>>, <<half_w, 0 - half_h>>,
                      <<half_w, half_h>>, <<0 - half_w, half_h>> >>
    IN  [i \in 1..4 |-> <<2 * center[1] + corners[i][1],
                          2 * center[2] + corners[i][2]>>]

\* What debug_draw hands to pygame.draw, in pixels.
Drawing(shape, center, radius, corners) ==
    [shape |-> shape, center |-> center, radius |-> radius, corners |-> corners]

NoDrawing == Drawing("none", <<0, 0>>, 0, << >>)

\* debug_draw, lines 672-679: pygame.draw.circle(screen, color, center, radius, 2)
draw_circle(s) ==
    Drawing("circle", hitbox_center(s), int(s.hitbox_radius), << >>)

\* debug_draw, lines 680-685: pygame.draw.polygon(screen, color, int_corners, 2)
draw_polygon(s) ==
    LET corners == get_corners(s) IN
    Drawing("polygon", <<0, 0>>, 0,
            [i \in 1..4 |-> <<int(corners[i][1]), int(corners[i][2])>>])

\* A call that draws nothing and returns None.
Setter ==
    /\ drawn' = NoDrawing
    /\ collided' = "None"
    /\ UNCHANGED outside_sprite

set_position(x, y) ==
    /\ sprite' = [sprite EXCEPT !.position = <<x, y>>]
    /\ Setter

\* set_rotation: self.rotation = angle % 360
set_rotation(angle) ==
    /\ sprite' = [sprite EXCEPT !.rotation = angle % 360]
    /\ Setter

\* set_scale: self.scale = max(0.1, scale), which is scale for the scales >= 1 used here.
set_scale(scale) ==
    /\ scale >= 1
    /\ sprite' = [sprite EXCEPT !.scale = scale]
    /\ Setter

set_collision_rect(width, height, offset) ==
    /\ sprite' = [sprite EXCEPT !.collision_offset = offset,
                                !.custom_hitbox_size = <<width, height>>,
                                !.hitbox_shape = "rect"]
    /\ Setter

set_collision_circle(radius, offset) ==
    /\ sprite' = [sprite EXCEPT !.hitbox_shape = "circle",
                                !.hitbox_radius = radius,
                                !.collision_offset = offset]
    /\ Setter

reset_collision_to_default ==
    /\ sprite' = [sprite EXCEPT !.custom_hitbox_size = NoSize,
                                !.hitbox_shape = "rect",
                                !.hitbox_radius = NoRadius,
                                !.collision_offset = <<0, 0>>]
    /\ Setter

debug_draw ==
    /\ drawn' = IF sprite.hitbox_shape = "circle"
                THEN draw_circle(sprite)
                ELSE draw_polygon(sprite)
    /\ collided' = "None"
    /\ UNCHANGED sprite
    /\ UNCHANGED outside_sprite

\* ---------------------------------------------------------------- collision

Min(S) == CHOOSE m \in S : \A x \in S : m <= x

Max(S) == CHOOSE m \in S : \A x \in S : m >= x

\* math.sqrt(square) <= bound.  The squares and bounds compared here are
\* small multiples of 1/4, for which the rounded square root decides the
\* comparison as the exact one does.
sqrt_leq(square, bound) == bound >= 0 /\ square <= bound * bound

\* The centre in half pixels, the unit of the corners and the radius.
center_halves(s) == <<2 * hitbox_center(s)[1], 2 * hitbox_center(s)[2]>>

\* A circle test that compares the distance with the caller's radius alone.
check_circle_collision_own_radius(self, other) ==
    LET center1 == center_halves(self)
        center2 == center_halves(other)
        dx == center2[1] - center1[1]
        dy == center2[2] - center1[2]
    IN  sqrt_leq(dx * dx + dy * dy, self.hitbox_radius)

\* _check_circle_collision: distance(center1, center2) <= radius1 + radius2
check_circle_collision(self, other) ==
    LET center1 == center_halves(self)
        center2 == center_halves(other)
        dx == center2[1] - center1[1]
        dy == center2[2] - center1[2]
    IN  sqrt_leq(dx * dx + dy * dy, self.hitbox_radius + other.hitbox_radius)

\* The projections of a polygon's corners on an axis.
projections(corners, normal) ==
    {corners[k][1] * normal[1] + corners[k][2] * normal[2] : k \in DOMAIN corners}

\* A separation test that takes touching projections for separated ones.
separated_or_touching(proj_a, proj_b) ==
    \/ Max(proj_a) <= Min(proj_b)
    \/ Max(proj_b) <= Min(proj_a)

\* _separating_axis_test, line 416: max_a < min_b or max_b < min_a
separated(proj_a, proj_b) ==
    \/ Max(proj_a) < Min(proj_b)
    \/ Max(proj_b) < Min(proj_a)

\* _separating_axis_test, lines 389-417, for edge i of polygon corners: the
\* axis is the edge's normal; a normal of length 0 is skipped.  The code
\* divides the normal by its length before projecting, which scales both
\* sides of the two comparisons by the same positive number.
axis_separates(corners, i, corners_a, corners_b) ==
    LET p1 == corners[i]
        p2 == corners[(i % Len(corners)) + 1]
        edge == <<p2[1] - p1[1], p2[2] - p1[2]>>
        normal == <<0 - edge[2], edge[1]>>
        proj_a == projections(corners_a, normal)
        proj_b == projections(corners_b, normal)
    IN  /\ normal[1] * normal[1] + normal[2] * normal[2] # 0
        /\ separated(proj_a, proj_b)

\* _separating_axis_test: True unless an edge normal of either polygon separates them.
separating_axis_test(corners_a, corners_b) ==
    ~ \E i \in 1..4 : \/ axis_separates(corners_a, i, corners_a, corners_b)
                      \/ axis_separates(corners_b, i, corners_a, corners_b)

\* _check_precise_rect_collision
check_precise_rect_collision(self, other) ==
    separating_axis_test(get_corners(self), get_corners(other))

\* _point_in_polygon, lines 569-575: the ray from point crosses the edge p1-p2.
\* xinters = (y - p1y) * (p2x - p1x) / (p2y - p1y) + p1x is assigned when
\* p1y != p2y; when p1y = p2y the two tests on y cannot both hold, so the
\* test that reads xinters is not reached.
ray_crosses(point, p1, p2) ==
    LET x == point[1]
        y == point[2]
        x_leq_xinters ==
            IF p2[2] > p1[2]
            THEN (x - p1[1]) * (p2[2] - p1[2]) <= (y - p1[2]) * (p2[1] - p1[1])
            ELSE (x - p1[1]) * (p2[2] - p1[2]) >= (y - p1[2]) * (p2[1] - p1[1])
    IN  /\ y > Min({p1[2], p2[2]})
        /\ y <= Max({p1[2], p2[2]})
        /\ x <= Max({p1[1], p2[1]})
        /\ (p1[1] = p2[1] \/ x_leq_xinters)

\* _point_in_polygon: the loop over the edges, from edge i on.
RECURSIVE point_in_polygon_from(_, _, _, _)
point_in_polygon_from(point, polygon, i, inside) ==
    IF i > Len(polygon)
    THEN inside
    ELSE point_in_polygon_from(
             point, polygon, i + 1,
             IF ray_crosses(point, polygon[i], polygon[(i % Len(polygon)) + 1])
             THEN ~inside
             ELSE inside)

point_in_polygon(point, polygon) == point_in_polygon_from(point, polygon, 1, FALSE)

\* _point_to_line_distance, squared, as the fraction <<numerator, denominator>>:
\* t = max(0, min(1, dot_product / line_len_sq)) is t_num / line_len_sq.
point_to_line_distance_sq(point, line_p1, line_p2) ==
    LET line_vec == <<line_p2[1] - line_p1[1], line_p2[2] - line_p1[2]>>
        point_vec == <<point[1] - line_p1[1], point[2] - line_p1[2]>>
        line_len_sq == line_vec[1] * line_vec[1] + line_vec[2] * line_vec[2]
        dot_product == point_vec[1] * line_vec[1] + point_vec[2] * line_vec[2]
        t_num == Max({0, Min({line_len_sq, dot_product})})
        dx == point_vec[1] * line_len_sq - t_num * line_vec[1]
        dy == point_vec[2] * line_len_sq - t_num * line_vec[2]
    IN  IF line_len_sq = 0
        THEN <<point_vec[1] * point_vec[1] + point_vec[2] * point_vec[2], 1>>
        ELSE <<dx * dx + dy * dy, line_len_sq * line_len_sq>>

\* A polygon test that looks at the edges only and misses a circle that lies
\* inside the polygon.
check_polygon_circle_collision_edges_only(circle_sprite, rect_sprite) ==
    LET circle_center == center_halves(circle_sprite)
        polygon_corners == get_corners(rect_sprite)
        radius == circle_sprite.hitbox_radius
    IN  \E i \in 1..4 :
            LET d == point_to_line_distance_sq(circle_center, polygon_corners[i],
                                                polygon_corners[(i % 4) + 1])
            IN  radius >= 0 /\ d[1] <= radius * radius * d[2]

\* _check_polygon_circle_collision
check_polygon_circle_collision(circle_sprite, rect_sprite) ==
    LET circle_center == center_halves(circle_sprite)
        polygon_corners == get_corners(rect_sprite)
        radius == circle_sprite.hitbox_radius
    IN  \/ point_in_polygon(circle_center, polygon_corners)
        \/ \E i \in 1..4 :
             LET d == point_to_line_distance_sq(circle_center, polygon_corners[i],
                                                 polygon_corners[(i % 4) + 1])
             IN  radius >= 0 /\ d[1] <= radius * radius * d[2]

\* _check_circle_rect_collision, lines 506-528: the axis-aligned rectangle.
check_circle_aabb_collision(circle_sprite, rect_sprite) ==
    LET circle_center == center_halves(circle_sprite)
        rect_width == rect_sprite.frame_size[1] * rect_sprite.scale
        rect_height == rect_sprite.frame_size[2] * rect_sprite.scale
        rect_center == center_halves(rect_sprite)
        rect_left == rect_center[1] - (2 * rect_width) \div 2
        rect_right == rect_center[1] + (2 * rect_width) \div 2
        rect_top == rect_center[2] - (2 * rect_height) \div 2
        rect_bottom == rect_center[2] + (2 * rect_height) \div 2
        closest_x == Max({rect_left, Min({circle_center[1], rect_right})})
        closest_y == Max({rect_top, Min({circle_center[2], rect_bottom})})
        dx == circle_center[1] - closest_x
        dy == circle_center[2] - closest_y
    IN  sqrt_leq(dx * dx + dy * dy, circle_sprite.hitbox_radius)

\* _check_circle_rect_collision
check_circle_rect_collision(self, other) ==
    LET circle_sprite == IF self.hitbox_shape = "circle" THEN self ELSE other
        rect_sprite == IF self.hitbox_shape = "circle" THEN other ELSE self
    IN  IF rect_sprite.rotation # 0 \/ rect_sprite.custom_hitbox_size # NoSize
        THEN check_polygon_circle_collision(circle_sprite, rect_sprite)
        ELSE check_circle_aabb_collision(circle_sprite, rect_sprite)

collides_with(self, other) ==
    IF self.hitbox_shape = "circle" /\ other.hitbox_shape = "circle"
    THEN check_circle_collision(self, other)
    ELSE IF self.hitbox_shape = "circle" \/ other.hitbox_shape = "circle"
         THEN check_circle_rect_collision(self, other)
         ELSE check_precise_rect_collision(self, other)

\* The sprites collides_with is called with: a sprite of the same sheet
\* constructed at a whole-pixel position, with the default hitbox, a
\* scale, a custom rectangle or a circle.
OtherSprites ==
    LET placed == {AnimatedSprite(FrameSize, <<x, y>>) : x \in -1..1, y \in -1..1}
    IN  UNION {{o,
                [o EXCEPT !.scale = 2],
                [o EXCEPT !.custom_hitbox_size = <<1, MaxHitboxSize>>],
                [o EXCEPT !.hitbox_shape = "circle", !.hitbox_radius = 1],
                [o EXCEPT !.hitbox_shape = "circle", !.hitbox_radius = MaxRadius]} :
               o \in placed}

\* A call sprite.collides_with(other).
check_collision(other) ==
    /\ collided' = IF collides_with(sprite, other) THEN "True" ELSE "False"
    /\ drawn' = NoDrawing
    /\ UNCHANGED sprite
    /\ UNCHANGED outside_sprite

\* set_collision_circle stores the radius it is given unchecked: a radius
\* below zero (here -1 pixel) as readily as a circle's.
NegativeRadius == 0 - 2

\* The sprites collides_with is called on: a sprite constructed and then
\* positioned, scaled and given a hitbox by the setters; among the custom
\* rectangles is the one of the sprite's own size, frame_size * scale.
SelfSprites ==
    LET placed == {[AnimatedSprite(FrameSize, <<0, 0>>)
                       EXCEPT !.position = <<x, y>>, !.scale = k] :
                   x \in Coords, y \in Coords, k \in Scales}
    IN  UNION {{s} \cup {[s EXCEPT !.collision_offset = o,
                                   !.custom_hitbox_size = <<w, h>>] :
                         w \in HitboxSizes, h \in HitboxSizes, o \in Offsets}
                   \cup {[s EXCEPT !.collision_offset = o,
                                   !.custom_hitbox_size =
                                       <<s.frame_size[1] * s.scale,
                                         s.frame_size[2] * s.scale>>] :
                         o \in Offsets}
                   \cup {[s EXCEPT !.collision_offset = o,
                                   !.hitbox_shape = "circle",
                                   !.hitbox_radius = r] :
                         r \in Radii \cup {NegativeRadius}, o \in Offsets} :
               s \in placed}

\* No call in progress.
NoPair == [self |-> NoSprite, other |-> NoSprite]

\* The call pair.self.collides_with(pair.other) returns.
collides_with_returns ==
    /\ pair # NoPair
    /\ returned = "None"
    /\ returned' = IF collides_with(pair.self, pair.other) THEN "True" ELSE "False"
    /\ UNCHANGED pair
    /\ UNCHANGED outside_collision

\* ------------------------------------------------------------- SceneManager

\* The names scenes are created with, and a name no scene has.
SceneNames == {"menu", "game_scene1", "game_scene2"}

NoSceneName == "credits"

\* The Scene objects of the program: two objects may carry the same name.
Scenes == {[name |-> n, object |-> k] : n \in SceneNames, k \in 1..MaxSceneObjects}

\* self.current_scene = None
NoScene == [name |-> "None", object |-> 0]

\* Scene.on_enter: self.active = True
on_enter(act, scene) == [act EXCEPT ![scene] = TRUE]

\* An on_exit that leaves the scene active.
on_exit_keeps_active(act, scene) == act

\* Scene.on_exit: self.active = False
on_exit(act, scene) == [act EXCEPT ![scene] = FALSE]

\* SceneManager.__init__, and Scene.__init__ of every scene object.
InitScenes ==
    /\ scenes = [n \in {} |-> NoScene]
    /\ current_scene = NoScene
    /\ active = [scene \in Scenes |-> FALSE]
    /\ hooks = << >>
    /\ switched = "None"

\* SceneManager.add_scene: self.scenes[scene.name] = scene
add_scene(scene) ==
    /\ scenes' = [n \in DOMAIN scenes \cup {scene.name} |->
                     IF n = scene.name THEN scene ELSE scenes[n]]
    /\ hooks' = << >>
    /\ switched' = "None"
    /\ UNCHANGED <<current_scene, active>>
    /\ UNCHANGED outside_scenes

\* SceneManager.switch_to
switch_to(scene_name) ==
    /\ IF scene_name \in DOMAIN scenes
       THEN LET exited == IF current_scene # NoScene
                          THEN on_exit(active, current_scene)
                          ELSE active
            IN  /\ current_scene' = scenes[scene_name]
                /\ active' = on_enter(exited, scenes[scene_name])
                /\ hooks' = (IF current_scene # NoScene
                             THEN << <<"on_exit", current_scene>> >>
                             ELSE << >>)
                            \o << <<"on_enter", scenes[scene_name]>> >>
                /\ switched' = "True"
       ELSE /\ hooks' = << >>
            /\ switched' = "False"
            /\ UNCHANGED <<current_scene, active>>
    /\ UNCHANGED scenes
    /\ UNCHANGED outside_scenes

\* --------------------------------------------------------------------- Game
\* Time is counted in units of which 1.0 / fps is FramePeriod.

\* 1.0 / self.fps
FramePeriod == 2

\* The events one pass of the loop finds in pygame.event.get().
Events == {"none", "QUIT", "K_p"}

\* No pass of the loop made yet.
NoFrame == [began |-> 0, updated |-> FALSE, dt |-> 0, took |-> 0]

\* Game.__init__; the clock runs from pygame.init() on.
InitGame ==
    /\ game = [running |-> FALSE, paused |-> FALSE, dt |-> 0, last_time |-> 0]
    /\ ticks \in 0..1
    /\ frame = NoFrame

\* Game.run up to the loop: self.running = True
run ==
    /\ ~game.running
    /\ frame = NoFrame
    /\ game' = [game EXCEPT !.running = TRUE]
    /\ UNCHANGED <<ticks, frame>>
    /\ UNCHANGED outside_game

\* A loop that does not remember when the pass began.
last_time_kept(current_time) == game.last_time

\* _game_loop, line 177: self.last_time = current_time
last_time_after(current_time) == current_time

\* _game_loop, lines 173-176
delta_time(current_time) ==
    IF game.last_time > 0 THEN current_time - game.last_time ELSE FramePeriod

\* _handle_events: QUIT clears running, K_p (or PAUSE) toggles paused.
handle_events(g, event) ==
    [g EXCEPT !.running = IF event = "QUIT" THEN FALSE ELSE @,
              !.paused = IF event = "K_p" THEN ~@ ELSE @]

\* One pass of the loop of _game_loop: the time is read, the events are
\* handled, the sprites are updated with self.dt unless the game is paused,
\* the frame is drawn and clock.tick(fps) waits for the rest of 1 / fps; the
\* pass has taken lag longer than 1 / fps when the clock is read next.
game_loop(event, lag) ==
    /\ game.running
    /\ ticks + FramePeriod + lag <= MaxTicks
    /\ LET current_time == ticks
           timed == [game EXCEPT !.dt = delta_time(current_time),
                                 !.last_time = last_time_after(current_time)]
           handled == handle_events(timed, event)
       IN  /\ game' = handled
           /\ frame' = [began |-> current_time,
                        updated |-> ~handled.paused,
                        dt |-> handled.dt,
                        took |-> FramePeriod + lag]
    /\ ticks' = ticks + FramePeriod + lag
    /\ UNCHANGED outside_game

\* Game.get_delta_time
get_delta_time == game.dt

\* ------------------------------------------------------- wait_for_animation

\* AnimatedSprite.update(dt = 1 / 60): the dt of an update without argument,
\* in ticks; the frames of the animations last one or two of them.
DefaultDt == 1

\* The managers of the sprites wait_for_animation is called with: one
\* animation is registered, and it has not been played, or it is being
\* played (paused or not) at some frame and timer, or it has been played
\* to its end, or it was stopped.
Playback(a, index, timer, playing, paused, fin) ==
    [current_animation |-> a, current_frame_index |-> index, frame_timer |-> timer,
     is_playing |-> playing, is_paused |-> paused, finished |-> fin]

Playbacks(a) ==
    {Playback(NoAnimation, 0, 0, FALSE, FALSE, FALSE),
     Playback(a, 0, 0, FALSE, FALSE, FALSE)}
    \cup {Playback(a, i, t, TRUE, p, FALSE) :
             i \in 0..(Len(a.frames) - 1), t \in 0..(a.frame_duration - 1),
             p \in BOOLEAN}
    \cup (IF a.loop THEN {}
          ELSE {Playback(a, Len(a.frames) - 1, 0, FALSE, FALSE, TRUE)})

\* A loop test that waits for the sprite to stop playing.
keeps_waiting_while_playing == is_playing

\* wait_for_animation, line 280: while not sprite.is_animation_finished()
keeps_waiting == ~is_finished

\* wait_for_animation, lines 280-282: one pass of the loop, sprite.update();
\* time.sleep(0.01) changes nothing.
wait_for_animation_update ==
    /\ waiting = "waiting"
    /\ keeps_waiting
    /\ update(DefaultDt)

\* wait_for_animation: the loop test fails and the function returns.
wait_for_animation_return ==
    /\ waiting = "waiting"
    /\ ~keeps_waiting
    /\ waiting' = "returned"
    /\ UNCHANGED mgr_vars
    /\ UNCHANGED outside_wait

\* ---------------------------------------------------------- dialogue scenes
\* GameScene1, GameScene2 and GameScene4 of main.py.  The effects of a step
\* of the dialogue (texts moved on and off the screen, sounds, animations)
\* are represented by the number of the step they belong to.

\* space_cooldown = 1.0, in ticks
SpaceCooldown == 2

\* self.bao_animation_timer = 1.0, in ticks
BaoAnimationTimer == 2

DialogueScenes == {"GameScene1", "GameScene2", "GameScene4"}

\* The last branch of the scene's chain on space_press_count.
LastStep(scene) ==
    IF scene = "GameScene1" THEN 10 ELSE IF scene = "GameScene2" THEN 9 ELSE 5

\* The step that sets bao_moving and bao_animation_timer (GameScene2 has none);
\* the step after it clears bao_moving and moves bao_text1 off the screen.
BaoStep(scene) ==
    IF scene = "GameScene1" THEN 2 ELSE IF scene = "GameScene2" THEN 0 ELSE 1

\* GameScene.__init__
NewDialogue(scene) ==
    [scene |-> scene, space_press_count |-> 0, space_cooldown |-> 0,
     bao_moving |-> FALSE, bao_animation_timer |-> 0, bao_text1 |-> FALSE]

\* No update call made yet.
NoUpdate == [advanced |-> FALSE, space |-> FALSE, performed |-> {}, since |-> 0]

InitDialogue ==
    /\ dialogue = NewDialogue("GameScene1")
    /\ told = NoUpdate

\* An advance on every update call in which Space is held.
advances_without_cooldown(space, cooldown) == space

\* update: if keys[pygame.K_SPACE] and self.space_cooldown <= 0
advances(space, cooldown) == space /\ cooldown <= 0

\* GameScene.update(dt), with keys[pygame.K_SPACE] = space.
scene_update(dt, space) ==
    LET bao_step == BaoStep(dialogue.scene)
        cooldown == IF dialogue.space_cooldown > 0
                    THEN dialogue.space_cooldown - dt
                    ELSE dialogue.space_cooldown
        advance == advances(space, cooldown)
        count == IF advance
                 THEN dialogue.space_press_count + 1
                 ELSE dialogue.space_press_count
        starts == advance /\ bao_step # 0 /\ count = bao_step
        ends == advance /\ bao_step # 0 /\ count = bao_step + 1
        moving == IF starts THEN TRUE ELSE IF ends THEN FALSE ELSE dialogue.bao_moving
        timer == IF starts THEN BaoAnimationTimer ELSE dialogue.bao_animation_timer
        \* lines 336-347: if self.bao_moving: ... elif not is_animation_finished()
        \* (bao's only animation loops, so it never finishes)
        speaks == moving /\ timer <= 0
    IN  /\ advance => dialogue.space_press_count < MaxPresses
        /\ dialogue' = [dialogue EXCEPT
              !.space_press_count = count,
              !.space_cooldown = IF advance THEN SpaceCooldown ELSE cooldown,
              !.bao_moving = moving,
              !.bao_animation_timer = IF moving /\ timer > 0 THEN timer - dt ELSE timer,
              !.bao_text1 = IF speaks THEN TRUE ELSE IF ends THEN FALSE ELSE @]
        /\ told' = [advanced |-> advance,
                    space |-> space,
                    performed |-> (IF advance /\ count <= LastStep(dialogue.scene)
                                   THEN {count} ELSE {})
                                  \cup (IF speaks THEN {bao_step} ELSE {}),
                    since |-> IF advance THEN 0
                              ELSE Min({told.since + dt, SpaceCooldown})]
        /\ UNCHANGED outside_dialogue

\* -------------------------------------------------------------- input state

\* Keys of the keyboard: two that update_input_state checks and one it does not.
Keys == {"K_SPACE", "K_a", "K_RSHIFT"}

\* key_codes_to_check
key_codes_to_check == {"K_SPACE", "K_a"}

\* What pygame.mouse.get_pressed() returns.
MouseButtons == [1..3 -> BOOLEAN]

\* The module globals as utils.py initialises them.  _mouse_pos copies
\* pygame.mouse.get_pos() and is not part of the state.
InitInput ==
    /\ input = [pressed_keys |-> {}, just_pressed_keys |-> {}, just_released_keys |-> {},
                mouse_pressed |-> [i \in 1..3 |-> FALSE],
                mouse_just_pressed |-> [i \in 1..3 |-> FALSE],
                mouse_just_released |-> [i \in 1..3 |-> FALSE]]
    /\ polled = {}

\* Every key that is down reported as just pressed.
just_pressed_while_down(current_keys) == current_keys

\* update_input_state, line 80: _just_pressed_keys = current_keys - _pressed_keys
just_pressed(current_keys) == current_keys \ input.pressed_keys

\* update_input_state(), with keys = the keys pygame.key.get_pressed()
\* reports as down and current_mouse = pygame.mouse.get_pressed().
update_input_state(keys, current_mouse) ==
    LET current_keys == {key_code \in key_codes_to_check : key_code \in keys} IN
    /\ input' = [pressed_keys |-> current_keys,
                 just_pressed_keys |-> just_pressed(current_keys),
                 just_released_keys |-> input.pressed_keys \ current_keys,
                 mouse_pressed |-> current_mouse,
                 mouse_just_pressed |->
                     [i \in 1..3 |-> current_mouse[i] /\ ~input.mouse_pressed[i]],
                 mouse_just_released |->
                     [i \in 1..3 |-> ~current_mouse[i] /\ input.mouse_pressed[i]]]
    /\ polled' = keys
    /\ UNCHANGED outside_input

key_pressed(key_code) == key_code \in input.pressed_keys

key_just_pressed(key_code) == key_code \in input.just_pressed_keys

key_just_released(key_code) == key_code \in input.just_released_keys

\* ------------------------------------------------------------------- Button

\* The events handle_event is called with; inside is
\* self.rect.collidepoint(event.pos), button 1 is the left button.
ButtonEvents ==
    [type : {"MOUSEBUTTONDOWN", "MOUSEBUTTONUP"}, button : {1, 3}, inside : BOOLEAN]
    \cup [type : {"MOUSEMOTION"}, button : {0}, inside : BOOLEAN]
    \cup [type : {"KEYDOWN"}, button : {0}, inside : {FALSE}]

NoEvent == [type |-> "None", button |-> 0, inside |-> FALSE]

\* What handle_event did: the event, the value returned and whether the callback ran.
Handled(event, value, called) == [event |-> event, value |-> value, called |-> called]

\* UIElement.__init__ and Button.__init__
NewButton(callback) ==
    [enabled |-> TRUE, visible |-> TRUE, pressed |-> FALSE, callback |-> callback]

InitButton ==
    /\ button = NewButton(TRUE)
    /\ clicked = Handled(NoEvent, "None", FALSE)

\* A release outside the rect that leaves the Button pressed.
pressed_after_release_kept == button.pressed

\* handle_event, line 223: self.pressed = False
pressed_after_release == FALSE

\* Button.handle_event
button_handle_event(event) ==
    /\ IF ~button.enabled \/ ~button.visible
       THEN /\ clicked' = Handled(event, "False", FALSE)
            /\ UNCHANGED button
       ELSE IF event.type = "MOUSEBUTTONDOWN" /\ event.button = 1
       THEN IF event.inside
            THEN /\ button' = [button EXCEPT !.pressed = TRUE]
                 /\ clicked' = Handled(event, "True", FALSE)
            ELSE /\ clicked' = Handled(event, "False", FALSE)
                 /\ UNCHANGED button
       ELSE IF event.type = "MOUSEBUTTONUP" /\ event.button = 1
       THEN IF button.pressed /\ event.inside
            THEN /\ button' = [button EXCEPT !.pressed = FALSE]
                 /\ clicked' = Handled(event, "True", button.callback)
            ELSE /\ button' = [button EXCEPT !.pressed = pressed_after_release]
                 /\ clicked' = Handled(event, "False", FALSE)
       ELSE IF event.type = "MOUSEMOTION"
       THEN /\ button' = [button EXCEPT
                            !.pressed = IF @ /\ ~event.inside THEN FALSE ELSE @]
            /\ clicked' = Handled(event, "False", FALSE)
       ELSE /\ clicked' = Handled(event, "False", FALSE)
            /\ UNCHANGED button
    /\ UNCHANGED outside_button

\* button.enabled = value, button.visible = value: the attributes of
\* UIElement are set by assignment.
set_enabled(value) ==
    /\ button' = [button EXCEPT !.enabled = value]
    /\ clicked' = Handled(NoEvent, "None", FALSE)
    /\ UNCHANGED outside_button

set_visible(value) ==
    /\ button' = [button EXCEPT !.visible = value]
    /\ clicked' = Handled(NoEvent, "None", FALSE)
    /\ UNCHANGED outside_button

\* ---------------------------------------------------------------- TextInput
\* The field is enabled and visible, as UIElement.__init__ leaves it.

\* Characters: two printable ones and a line feed.
Chars == {"a", "b", "\n"}

\* The strings of up to n characters.
Strings(n) == UNION {[1..k -> Chars] : k \in 0..n}

\* char.isprintable() and char != '\r' and char != '\n'
isprintable(char) == \A i \in DOMAIN char : char[i] # "\n"

\* text[:n] for n >= 0
Prefix(text, n) == SubSeq(text, 1, Min({n, Len(text)}))

\* The events handle_event is called with.  A TEXTINPUT event carries the
\* text pygame composed, one character or several; the click of a
\* MOUSEBUTTONDOWN is inside the rect or not, and best is the cursor position
\* the font metrics make closest to it.
TextEvents ==
    [type : {"MOUSEBUTTONDOWN"}, button : {1, 3}, inside : BOOLEAN,
     best : 0..(MaxLength + MaxTyped), key : {"None"}, text : {<< >>}]
    \cup [type : {"KEYDOWN"}, button : {0}, inside : {FALSE}, best : {0},
          key : {"K_BACKSPACE", "K_DELETE", "K_LEFT", "K_RIGHT", "K_HOME", "K_END",
                 "K_RETURN", "K_ESCAPE", "K_a"},
          text : {<< >>}]
    \cup [type : {"TEXTINPUT"}, button : {0}, inside : {FALSE}, best : {0},
          key : {"None"}, text : Strings(MaxTyped) \ {<< >>}]

\* TextInput.__init__
InitTextInput ==
    text_input = [text |-> << >>, cursor_pos |-> 0, max_length |-> MaxLength,
                  active |-> FALSE]

\* handle_event, KEYDOWN while active
key_down(t, key) ==
    LET n == Len(t.text)
        c == t.cursor_pos
    IN  IF key = "K_BACKSPACE" /\ c > 0
        THEN [t EXCEPT !.text = SubSeq(t.text, 1, c - 1) \o SubSeq(t.text, c + 1, n),
                       !.cursor_pos = c - 1]
        ELSE IF key = "K_DELETE" /\ c < n
        THEN [t EXCEPT !.text = SubSeq(t.text, 1, c) \o SubSeq(t.text, c + 2, n)]
        ELSE IF key = "K_LEFT" /\ c > 0 THEN [t EXCEPT !.cursor_pos = c - 1]
        ELSE IF key = "K_RIGHT" /\ c < n THEN [t EXCEPT !.cursor_pos = c + 1]
        ELSE IF key = "K_HOME" THEN [t EXCEPT !.cursor_pos = 0]
        ELSE IF key = "K_END" THEN [t EXCEPT !.cursor_pos = n]
        ELSE IF key \in {"K_RETURN", "K_ESCAPE"} THEN [t EXCEPT !.active = FALSE]
        ELSE t

\* handle_event, TEXTINPUT while active
text_typed(t, char) ==
    IF Len(t.text) < t.max_length /\ isprintable(char)
    THEN [t EXCEPT !.text = SubSeq(t.text, 1, t.cursor_pos) \o char
                             \o SubSeq(t.text, t.cursor_pos + 1, Len(t.text)),
                   !.cursor_pos = t.cursor_pos + 1]
    ELSE t

\* TextInput.handle_event
text_handle_event(event) ==
    /\ text_input' =
          IF event.type = "MOUSEBUTTONDOWN"
          THEN IF event.button # 1 THEN text_input
               ELSE IF event.inside
                    THEN [text_input EXCEPT
                            !.active = TRUE,
                            !.cursor_pos = Min({event.best, Len(text_input.text)})]
                    ELSE [text_input EXCEPT !.active = FALSE]
          ELSE IF ~text_input.active THEN text_input
          ELSE IF event.type = "KEYDOWN" THEN key_down(text_input, event.key)
          ELSE text_typed(text_input, event.text)
    /\ UNCHANGED outside_text

\* TextInput.set_text
set_text(text) ==
    /\ text_input' =
          LET cut == Prefix(text, text_input.max_length)
          IN  [text_input EXCEPT !.text = cut,
                                 !.cursor_pos = Min({text_input.cursor_pos, Len(cut)})]
    /\ UNCHANGED outside_text

\* TextInput.clear
clear ==
    /\ text_input' = [text_input EXCEPT !.text = << >>, !.cursor_pos = 0]
    /\ UNCHANGED outside_text

\* TextInput.set_max_length
set_max_length(max_length) ==
    /\ text_input' =
          IF Len(text_input.text) > max_length
          THEN LET cut == Prefix(text_input.text, max_length)
               IN  [text_input EXCEPT !.max_length = max_length,
                                      !.text = cut,
                                      !.cursor_pos = Min({text_input.cursor_pos, Len(cut)})]
          ELSE [text_input EXCEPT !.max_length = max_length]
    /\ UNCHANGED outside_text

\* -------------------------------------------------------------- fact popups
\* The five game scenes of main.py carry the same fact-popup code; they
\* differ in whether the fact buttons are drawn from the start.

FactScenes == {"GameScene1", "GameScene2", "GameScene3", "GameScene4", "GameScene5"}

\* GameScene3 and GameScene5 set f_btns_draw = True in __init__.
DrawnFromStart == {"GameScene3", "GameScene5"}

\* The events a scene's handle_event is called with; at names the fact
\* button whose rect holds event.pos (the two rects are disjoint).
FactEvents ==
    [type : {"MOUSEBUTTONDOWN", "MOUSEBUTTONUP"}, button : {1, 3},
     at : {"f1", "f2", "elsewhere"}, key : {"None"}]
    \cup [type : {"MOUSEMOTION"}, button : {0}, at : {"f1", "f2", "elsewhere"},
          key : {"None"}]
    \cup [type : {"KEYDOWN"}, button : {0}, at : {"elsewhere"}, key : {"K_SPACE", "K_a"}]

NoFactEvent == [type |-> "None", button |-> 0, at |-> "elsewhere", key |-> "None"]

\* GameScene.__init__
NewFacts(scene) ==
    [scene |-> scene, f_btns_draw |-> scene \in DrawnFromStart,
     f1_pressed |-> FALSE, f2_pressed |-> FALSE,
     f1_text_visible |-> FALSE, f2_text_visible |-> FALSE, hello_visible |-> FALSE,
     show_hello_first_time |-> TRUE, fact_system_active |-> FALSE,
     current_fact |-> "None"]

\* The popups a scene shows.
visible(f) ==
    (IF f.hello_visible THEN {"hello"} ELSE {})
    \cup (IF f.f1_text_visible THEN {"f1"} ELSE {})
    \cup (IF f.f2_text_visible THEN {"f2"} ELSE {})

InitFacts ==
    /\ facts = NewFacts("GameScene1")
    /\ fact_seen = {}
    /\ fact_event = NoFactEvent

\* Button.handle_event of an enabled, visible Button: the pressed flag it
\* leaves and whether it called the callback.
fact_button(pressed, event, inside) ==
    IF event.type = "MOUSEBUTTONDOWN" /\ event.button = 1
    THEN [pressed |-> pressed \/ inside, called |-> FALSE]
    ELSE IF event.type = "MOUSEBUTTONUP" /\ event.button = 1
    THEN [pressed |-> FALSE, called |-> pressed /\ inside]
    ELSE IF event.type = "MOUSEMOTION"
    THEN [pressed |-> pressed /\ inside, called |-> FALSE]
    ELSE [pressed |-> pressed, called |-> FALSE]

\* toggle_f1_text / toggle_f2_text, on_f1_click / on_f2_click
toggle_text(f, fact) ==
    IF f.fact_system_active THEN f
    ELSE IF f.show_hello_first_time
    THEN [f EXCEPT !.fact_system_active = TRUE, !.current_fact = fact,
                   !.hello_visible = TRUE]
    ELSE [f EXCEPT !.fact_system_active = TRUE, !.current_fact = fact,
                   !.f1_text_visible = (fact = "f1"),
                   !.f2_text_visible = (fact = "f2")]

\* A show_fact that leaves the hello popup as it is.
hello_visible_kept(f) == f.hello_visible

\* show_fact: self.hello_visible = False
hello_visible_after_show_fact(f) == FALSE

\* show_fact
show_fact(f) ==
    [f EXCEPT !.f1_text_visible = (f.current_fact = "f1"),
              !.f2_text_visible = (f.current_fact # "f1"),
              !.hello_visible = hello_visible_after_show_fact(f),
              !.show_hello_first_time = FALSE]

\* hide_facts
hide_facts(f) ==
    [f EXCEPT !.f1_text_visible = FALSE, !.f2_text_visible = FALSE,
              !.hello_visible = FALSE, !.fact_system_active = FALSE,
              !.current_fact = "None"]

\* for btn in self.f_btns: btn.handle_event(event)
f_btns_handle_event(f, event) ==
    LET b1 == fact_button(f.f1_pressed, event, event.at = "f1")
        g  == IF b1.called THEN toggle_text(f, "f1") ELSE f
        g1 == [g EXCEPT !.f1_pressed = b1.pressed]
        b2 == fact_button(g1.f2_pressed, event, event.at = "f2")
        h  == IF b2.called THEN toggle_text(g1, "f2") ELSE g1
    IN  [h EXCEPT !.f2_pressed = b2.pressed]

\* GameScene.handle_event; the elements of self.ui hold no fact state.
fact_handle_event(event) ==
    /\ facts' =
          IF event.type = "KEYDOWN" /\ event.key = "K_SPACE" /\ facts.fact_system_active
          THEN IF facts.hello_visible THEN show_fact(facts) ELSE hide_facts(facts)
          ELSE IF facts.f_btns_draw /\ ~facts.fact_system_active
          THEN f_btns_handle_event(facts, event)
          ELSE facts
    /\ fact_seen' = fact_seen \cup visible(facts')
    /\ fact_event' = event
    /\ UNCHANGED outside_facts

\* GameScene.update, as far as the fact state goes: the last step of the
\* scene's dialogue sets f_btns_draw.
fact_update(last_step) ==
    /\ facts' = [facts EXCEPT !.f_btns_draw = @ \/ last_step]
    /\ fact_event' = NoFactEvent
    /\ UNCHANGED fact_seen
    /\ UNCHANGED outside_facts

\* ----------------------------------------------------------- specification

InitSprite ==
    /\ sprite = AnimatedSprite(FrameSize, <<0, 0>>)
    /\ drawn = NoDrawing
    /\ collided = "None"

InitCollision ==
    /\ pair = NoPair
    /\ returned = "None"

\* The rest of the engine, freshly constructed.
InitEngine ==
    /\ InitScenes /\ InitGame /\ waiting = "idle" /\ InitDialogue /\ InitInput
    /\ InitButton /\ InitTextInput /\ InitFacts

Init == InitManager /\ InitSprite /\ InitCollision /\ InitEngine

Next ==
    \/ \E a \in Animation : add_animation(a)
    \/ \E n \in Names, r \in BOOLEAN : play_animation(n, r)
    \/ stop
    \/ pause
    \/ resume
    \/ \E dt \in 0..MaxDt : update(dt)
    \/ \E n \in Names : remove_animation(n)
    \/ clear_animations

Spec == Init /\ [][Next]_vars

SpriteNext ==
    \/ \E x \in Coords, y \in Coords : set_position(x, y)
    \/ \E angle \in Angles : set_rotation(angle)
    \/ \E scale \in Scales : set_scale(scale)
    \/ \E w \in HitboxSizes, h \in HitboxSizes, o \in Offsets : set_collision_rect(w, h, o)
    \/ \E r \in Radii, o \in Offsets : set_collision_circle(r, o)
    \/ reset_collision_to_default
    \/ debug_draw
    \/ \E other \in OtherSprites : check_collision(other)

SpriteSpec == Init /\ [][SpriteNext]_vars

\* collides_with applied to every pair of a caller and an argument.
CollisionInit ==
    /\ InitManager
    /\ InitSprite
    /\ pair \in [self : SelfSprites, other : OtherSprites]
    /\ returned = "None"
    /\ InitEngine

CollisionNext == collides_with_returns

CollisionSpec == CollisionInit /\ [][CollisionNext]_vars

SceneNext ==
    \/ \E scene \in Scenes : add_scene(scene)
    \/ \E n \in SceneNames \cup {NoSceneName} : switch_to(n)

SceneSpec == Init /\ [][SceneNext]_vars

GameNext ==
    \/ run
    \/ \E event \in Events, lag \in 0..MaxLag : game_loop(event, lag)

GameSpec == Init /\ [][GameNext]_vars

\* wait_for_animation(sprite) called on a sprite in any of the states above.
WaitInit ==
    /\ \E a \in Animation : \E m \in Playbacks(a) :
          /\ animations = [n \in {a.name} |-> a]
          /\ current_animation = m.current_animation
          /\ current_animation_name = m.current_animation.name
          /\ current_frame_index = m.current_frame_index
          /\ frame_timer = m.frame_timer
          /\ is_playing = m.is_playing
          /\ is_paused = m.is_paused
          /\ finished = m.finished
    /\ result = "None"
    /\ last_call = NoCall
    /\ pre_pause = NoSnapshot
    /\ InitSprite
    /\ InitCollision
    /\ InitScenes
    /\ InitGame
    /\ InitDialogue
    /\ InitInput
    /\ InitButton
    /\ InitTextInput
    /\ InitFacts
    /\ waiting = "waiting"

WaitNext ==
    \/ wait_for_animation_update
    \/ wait_for_animation_return

\* The loop is the only code running: it is not suspended for ever.
WaitSpec == WaitInit /\ [][WaitNext]_vars /\ WF_vars(WaitNext)

\* One of the three dialogue scenes, updated frame after frame.
DialogueInit ==
    /\ InitManager
    /\ InitSprite
    /\ InitCollision
    /\ InitScenes
    /\ InitGame
    /\ waiting = "idle"
    /\ InitInput
    /\ InitButton
    /\ InitTextInput
    /\ InitFacts
    /\ \E scene \in DialogueScenes : dialogue = NewDialogue(scene)
    /\ told = NoUpdate

DialogueNext == \E dt \in 1..MaxDt, space \in BOOLEAN : scene_update(dt, space)

DialogueSpec == DialogueInit /\ [][DialogueNext]_vars

InputNext ==
    \E keys \in SUBSET Keys, current_mouse \in MouseButtons :
        update_input_state(keys, current_mouse)

InputSpec == Init /\ [][InputNext]_vars

\* A Button created with or without a callback.
ButtonInit ==
    /\ InitManager
    /\ InitSprite
    /\ InitCollision
    /\ InitScenes
    /\ InitGame
    /\ waiting = "idle"
    /\ InitDialogue
    /\ InitInput
    /\ InitTextInput
    /\ InitFacts
    /\ \E callback \in BOOLEAN : button = NewButton(callback)
    /\ clicked = Handled(NoEvent, "None", FALSE)

ButtonNext ==
    \/ \E event \in ButtonEvents : button_handle_event(event)
    \/ \E value \in BOOLEAN : set_enabled(value)
    \/ \E value \in BOOLEAN : set_visible(value)

ButtonSpec == ButtonInit /\ [][ButtonNext]_vars

TextNext ==
    \/ \E event \in TextEvents : text_handle_event(event)
    \/ \E text \in Strings(MaxTyped) : set_text(text)
    \/ clear
    \/ \E max_length \in 0..MaxLength : set_max_length(max_length)

TextSpec == Init /\ [][TextNext]_vars

FactInit ==
    /\ InitManager
    /\ InitSprite
    /\ InitCollision
    /\ InitScenes
    /\ InitGame
    /\ waiting = "idle"
    /\ InitDialogue
    /\ InitInput
    /\ InitButton
    /\ InitTextInput
    /\ \E scene \in FactScenes : facts = NewFacts(scene)
    /\ fact_seen = {}
    /\ fact_event = NoFactEvent

FactNext ==
    \/ \E event \in FactEvents : fact_handle_event(event)
    \/ \E last_step \in BOOLEAN : fact_update(last_step)

FactSpec == FactInit /\ [][FactNext]_vars

\* ------------------------------------------------ claims: AnimationManager

is_update_call == \E dt \in 0..MaxDt : update(dt)

\* The update call that advances a playing, unpaused animation past its last frame.
advances_past_last_frame(dt) ==
    /\ update(dt)
    /\ is_playing /\ ~is_paused /\ current_animation # NoAnimation
    /\ current_frame_index = Len(current_animation.frames) - 1
    /\ frame_timer + dt >= current_animation.frame_duration

\* C1: for a playing, unpaused, non-looping current animation, the update
\* call that advances past the last frame leaves current_frame_index at
\* len(frames) - 1, sets finished and clears is_playing; from then on every
\* update call leaves the whole manager state unchanged, and the manager
\* stays finished until play_animation or stop (also called by
\* remove_animation and clear_animations) is called.
C1_FinishAndFreeze ==
    [][ /\ \A dt \in 0..MaxDt :
             (advances_past_last_frame(dt) /\ ~current_animation.loop)
                => /\ current_frame_index' = Len(current_animation.frames) - 1
                   /\ finished'
                   /\ ~is_playing'
        /\ (finished /\ is_update_call) => UNCHANGED mgr
        /\ (finished /\ ~finished')
              => last_call'.op \in {"play_animation", "stop",
                                    "remove_animation", "clear_animations"}
      ]_vars

C1_Witness ==
    /\ last_call.op = "update"
    /\ finished /\ ~is_playing
    /\ Len(current_animation.frames) = MaxFrames
    /\ current_frame_index = MaxFrames - 1

\* C2: for a looping current animation the update call that advances past
\* the last frame sets current_frame_index back to 0 and keeps is_playing;
\* is_finished() is false in every state in which the current animation loops.
C2_LoopWrapsNeverFinished ==
    [][ /\ \A dt \in 0..MaxDt :
             (advances_past_last_frame(dt) /\ current_animation.loop)
                => /\ current_frame_index' = 0
                   /\ is_playing'
        /\ (current_animation' # NoAnimation /\ current_animation'.loop)
              => ~is_finished'
      ]_vars

C2_Witness ==
    /\ last_call.op = "update" /\ last_call.dt > 0
    /\ current_animation.loop
    /\ Len(current_animation.frames) = MaxFrames
    /\ current_frame_index = 0 /\ frame_timer = 0
    /\ is_playing /\ ~is_paused /\ ~finished

\* C3: play_animation(name) with a name that is not registered returns
\* False and leaves every field of the manager unchanged.
C3_PlayUnknownChangesNothing ==
    [][ \A n \in Names, r \in BOOLEAN :
          (play_animation(n, r) /\ n \notin DOMAIN animations)
             => /\ result' = "False"
                /\ UNCHANGED mgr
      ]_vars

C3_Witness ==
    /\ last_call.op = "play_animation"
    /\ last_call.name \notin DOMAIN animations
    /\ result = "False"
    /\ is_playing /\ current_frame_index > 0

\* C4: play_animation(name, restart=False) while name is the current
\* animation, is_playing is true and finished is false returns True and
\* leaves current_frame_index, frame_timer and is_paused unchanged.
C4_PlaySameKeepsPlayback ==
    [][ \A n \in Names :
          (/\ play_animation(n, FALSE)
           /\ current_animation_name = n /\ is_playing /\ ~finished)
             => /\ result' = "True"
                /\ UNCHANGED <<current_frame_index, frame_timer, is_paused>>
      ]_vars

C4_Witness ==
    /\ last_call = Call("play_animation", current_animation_name, FALSE, 0)
    /\ result = "True"
    /\ is_playing /\ is_paused
    /\ current_frame_index > 0 /\ frame_timer > 0

\* C5: play_animation(name, restart) for a registered name, when restart is
\* true or name is not the current playing unfinished animation, makes it
\* the current animation with frame index 0, timer 0, is_playing true,
\* is_paused false and finished false, and returns True.
C5_PlayStartsFromZero ==
    [][ \A n \in Names, r \in BOOLEAN :
          (/\ play_animation(n, r)
           /\ n \in DOMAIN animations
           /\ (r \/ ~(current_animation_name = n /\ is_playing /\ ~finished)))
             => /\ current_animation' = animations[n]
                /\ current_animation_name' = n
                /\ current_frame_index' = 0
                /\ frame_timer' = 0
                /\ is_playing' /\ ~is_paused' /\ ~finished'
                /\ result' = "True"
      ]_vars

C5_Witness ==
    /\ last_call.op = "play_animation" /\ last_call.restart
    /\ result = "True"
    /\ current_animation_name = last_call.name
    /\ current_animation = animations[last_call.name]
    /\ current_frame_index = 0 /\ frame_timer = 0
    /\ is_playing /\ ~is_paused /\ ~finished

\* C6: while an animation is paused, update leaves current_frame_index and
\* frame_timer unchanged for any dt; pause() followed by any number of
\* update calls and then resume() restores exactly the state the manager
\* had before it became paused (pre_pause); pause() and resume() change
\* nothing when is_playing is false.
C6_PauseFreezesResumeRestores ==
    [][ /\ (is_paused /\ is_update_call)
              => UNCHANGED <<current_frame_index, frame_timer>>
        /\ (resume /\ pre_pause # NoSnapshot) => Snapshot' = pre_pause
        /\ (~is_playing /\ (pause \/ resume)) => UNCHANGED mgr
      ]_vars

C6_Witness ==
    /\ last_call.op = "update" /\ last_call.dt = MaxDt
    /\ is_playing /\ is_paused
    /\ pre_pause # NoSnapshot
    /\ current_frame_index > 0 /\ frame_timer > 0

\* C7: stop() clears is_playing, is_paused and finished and sets
\* current_frame_index and frame_timer to 0, leaving the registered
\* animations and the selected current animation unchanged; right after
\* stop() an update changes nothing, and play_animation of the same
\* (registered) name, even with restart=False, starts it again from frame 0.
C7_StopResetsPlayback ==
    [][ /\ stop => /\ ~is_playing' /\ ~is_paused' /\ ~finished'
                   /\ current_frame_index' = 0 /\ frame_timer' = 0
                   /\ UNCHANGED <<animations, current_animation,
                                  current_animation_name>>
        /\ (last_call.op = "stop" /\ is_update_call) => UNCHANGED mgr
        /\ \A r \in BOOLEAN :
             (/\ last_call.op = "stop"
              /\ current_animation_name \in DOMAIN animations
              /\ play_animation(current_animation_name, r))
                => /\ result' = "True"
                   /\ is_playing'
                   /\ current_frame_index' = 0 /\ frame_timer' = 0
                   /\ current_animation' = animations[current_animation_name]
      ]_vars

C7_Witness ==
    /\ last_call.op = "stop"
    /\ current_animation_name \in DOMAIN animations
    /\ ~current_animation.loop
    /\ ~is_playing /\ ~is_paused /\ ~finished
    /\ current_frame_index = 0 /\ frame_timer = 0

\* C8: remove_animation(name) returns True and unregisters name when it is
\* registered, and returns False changing nothing when it is not; when name
\* is the current animation playback is stopped (is_playing false, frame
\* index 0, timer 0), otherwise the playback state is unchanged.
C8_RemoveAnimation ==
    [][ \A n \in Names :
          remove_animation(n)
             => IF n \in DOMAIN animations
                THEN /\ result' = "True"
                     /\ DOMAIN animations' = DOMAIN animations \ {n}
                     /\ \A m \in DOMAIN animations' : animations'[m] = animations[m]
                     /\ IF current_animation_name = n
                        THEN /\ ~is_playing'
                             /\ current_frame_index' = 0
                             /\ frame_timer' = 0
                        ELSE UNCHANGED playback
                ELSE /\ result' = "False"
                     /\ UNCHANGED mgr
      ]_vars

C8_Witness ==
    /\ last_call.op = "remove_animation"
    /\ result = "True"
    /\ last_call.name \notin DOMAIN animations
    /\ current_animation_name # last_call.name
    /\ is_playing /\ current_frame_index > 0 /\ frame_timer > 0

\* The manager state right after play_animation started an animation.
just_started ==
    /\ last_call.op = "play_animation"
    /\ result = "True"
    /\ current_frame_index = 0 /\ frame_timer = 0

\* C9: get_animation_progress() always returns a value in [0.0, 1.0] that
\* is 0.0 at the start of the animation (right after play_animation started
\* it) and 1.0 at its end (once a non-looping animation has finished).
C9_ProgressFromZeroToOne ==
    LET p == get_animation_progress IN
    /\ 0 <= p[1] /\ p[1] <= p[2]
    /\ just_started => p[1] = 0
    /\ is_finished => p[1] = p[2]

\* ---------------------------------------------------- claims: AnimatedSprite

\* The outline in half pixels, the unit of the hitbox.
drawn_center == <<2 * drawn.center[1], 2 * drawn.center[2]>>

drawn_corners == [i \in DOMAIN drawn.corners |->
                    <<2 * drawn.corners[i][1], 2 * drawn.corners[i][2]>>]

\* C10: debug_draw outlines exactly the hitbox that collides_with tests: the
\* circle it draws has the centre int(position) + collision_offset and the
\* radius hitbox_radius, the polygon it draws has the corners _get_corners
\* returns.
C10_DrawnIsHitbox ==
    drawn # NoDrawing
       => IF sprite.hitbox_shape = "circle"
          THEN /\ drawn.shape = "circle"
               /\ drawn_center = center_halves(sprite)
               /\ 2 * drawn.radius = sprite.hitbox_radius
          ELSE /\ drawn.shape = "polygon"
               /\ drawn_corners = get_corners(sprite)

\* The size of a rectangle hitbox in pixels: custom_hitbox_size if set,
\* otherwise frame_size * scale.
hitbox_size(s) ==
    IF s.custom_hitbox_size # NoSize
    THEN s.custom_hitbox_size
    ELSE <<s.frame_size[1] * s.scale, s.frame_size[2] * s.scale>>

\* The closed interval a rectangle hitbox covers on axis k (1 = x, 2 = y),
\* in half pixels: centre - size / 2 to centre + size / 2.
extent(s, k) ==
    [lo |-> 2 * hitbox_center(s)[k] - hitbox_size(s)[k],
     hi |-> 2 * hitbox_center(s)[k] + hitbox_size(s)[k]]

\* Two closed intervals overlap or touch.
overlap_or_touch(i, j) == i.lo <= j.hi /\ j.lo <= i.hi

rect_rect(a, b) ==
    /\ a.hitbox_shape = "rect" /\ a.rotation = 0
    /\ b.hitbox_shape = "rect" /\ b.rotation = 0

C12_CollidesWithIsSymmetric ==
    returned # "None"
       => (returned = "True" <=> collides_with(pair.other, pair.self))

\* A rectangle with a custom size was called with a circle, the order in
\* which _check_circle_rect_collision has to pick the other sprite as the
\* circle, and they collide.
C12_Witness ==
    /\ returned = "True"
    /\ pair.self.hitbox_shape = "rect"
    /\ pair.self.custom_hitbox_size # NoSize
    /\ pair.other.hitbox_shape = "circle"

\* A circle hitbox against an unrotated rectangle hitbox, from either side.
circle_rect(a, b) ==
    \/ a.hitbox_shape = "circle" /\ b.hitbox_shape = "rect" /\ b.rotation = 0
    \/ b.hitbox_shape = "circle" /\ a.hitbox_shape = "rect" /\ a.rotation = 0

circle_of(a, b) == IF a.hitbox_shape = "circle" THEN a ELSE b

rect_of(a, b) == IF a.hitbox_shape = "circle" THEN b ELSE a

\* The distance from point q to the closed interval i on one axis.
axis_distance(q, i) == Max({i.lo - q, 0, q - i.hi})

\* The distance from the circle's centre to the rectangle of r's centre and
\* size, 0 if the centre is inside or on the boundary, is at most the
\* circle's hitbox_radius (all in half pixels).
within_radius(c, r) ==
    LET dx == axis_distance(center_halves(c)[1], extent(r, 1))
        dy == axis_distance(center_halves(c)[2], extent(r, 2))
    IN  /\ c.hitbox_radius >= 0
        /\ dx * dx + dy * dy <= c.hitbox_radius * c.hitbox_radius

exit_then_enter(n) ==
    (IF current_scene # NoScene THEN << <<"on_exit", current_scene>> >> ELSE << >>)
       \o << <<"on_enter", scenes[n]>> >>

switch_to_unregistered ==
    /\ switched' = "False"
    /\ hooks' = << >>
    /\ UNCHANGED <<scenes, current_scene, active>>

\* C13 as stated: switch_to(name) for a registered name calls on_exit of the
\* previous current scene (if any) before on_enter of the new one, makes the
\* new scene current_scene with active true and the previous one active
\* false, and returns True; for an unregistered name it returns False,
\* calls neither hook and leaves current_scene unchanged.
C13_SwitchTo ==
    [][ \A n \in SceneNames \cup {NoSceneName} :
          switch_to(n)
             => IF n \in DOMAIN scenes
                THEN /\ hooks' = exit_then_enter(n)
                     /\ current_scene' = scenes[n]
                     /\ active'[scenes[n]]
                     /\ current_scene # NoScene => ~active'[current_scene]
                     /\ switched' = "True"
                ELSE switch_to_unregistered
      ]_vars

\* C13 amended: the previous scene is left inactive unless it is the scene
\* switched to, which on_enter makes active again after on_exit.
C13_SwitchToAnotherScene ==
    [][ \A n \in SceneNames \cup {NoSceneName} :
          switch_to(n)
             => IF n \in DOMAIN scenes
                THEN /\ hooks' = exit_then_enter(n)
                     /\ current_scene' = scenes[n]
                     /\ active'[scenes[n]]
                     /\ (current_scene # NoScene /\ current_scene # scenes[n])
                           => ~active'[current_scene]
                     /\ switched' = "True"
                ELSE switch_to_unregistered
      ]_vars

\* switch_to has left one scene for another: both hooks were called.
C13_Witness ==
    /\ switched = "True"
    /\ Len(hooks) = 2
    /\ hooks[1][2] # current_scene
    /\ ~active[hooks[1][2]]
    /\ active[current_scene]

\* ------------------------------------------------------------ claims: Game

is_frame == \E event \in Events, lag \in 0..MaxLag : game_loop(event, lag)

\* C14 as stated: the game loop is fixed-timestep: on every frame the dt
\* that Game passes to sprite updates and returns from get_delta_time()
\* equals 1 / fps, independent of how long the previous frame took.
C14_FixedTimestep ==
    [][ is_frame => /\ get_delta_time' = FramePeriod
                    /\ frame'.updated => frame'.dt = FramePeriod
      ]_vars

\* C14 amended: dt is 1 / fps on the first frame and on a frame whose
\* predecessor began at clock time 0; on every other frame dt is the time
\* the previous frame took, from its reading of the clock to this one.
\* get_delta_time() returns that dt and the sprites are updated with it on
\* the frames where the game is not paused.
C14_MeasuredTimestep ==
    [][ is_frame => /\ get_delta_time' = IF frame # NoFrame /\ frame.began > 0
                                         THEN frame.took
                                         ELSE FramePeriod
                    /\ frame'.updated <=> ~game'.paused
                    /\ frame'.dt = get_delta_time'
      ]_vars

\* A frame that updated the sprites with a dt longer than 1 / fps.
C14_Witness ==
    /\ frame.updated
    /\ frame.dt > FramePeriod
    /\ get_delta_time = frame.dt

\* ---------------------------------------------- claims: wait_for_animation

\* C15 as stated: wait_for_animation(sprite) returns only in a state where
\* sprite.is_animation_finished() is true, and it terminates after finitely
\* many sprite.update() calls for the sprite's current animation.
C15_WaitReturnsFinished ==
    /\ [](waiting = "returned" => is_finished)
    /\ <>(waiting = "returned")

\* The updates of the loop can finish the current animation: it is finished
\* already, or it is playing, not paused and not looping.
can_finish ==
    \/ finished
    \/ /\ is_playing
       /\ ~is_paused
       /\ current_animation # NoAnimation
       /\ ~current_animation.loop

\* C15 amended: wait_for_animation(sprite) returns only in a state where
\* sprite.is_animation_finished() is true; it returns after finitely many
\* sprite.update() calls when the current animation is already finished or
\* is playing, not paused and not looping, and it never returns otherwise.
C15_WaitReturnsIfItCanFinish ==
    /\ [](waiting = "returned" => is_finished)
    /\ can_finish => <>(waiting = "returned")
    /\ ~can_finish => [](waiting = "waiting")

\* The call has returned after its updates played the animation to its end.
C15_Witness ==
    /\ waiting = "returned"
    /\ last_call.op = "update"
    /\ is_finished
    /\ current_frame_index = Len(current_animation.frames) - 1
    /\ current_frame_index > 0

\* ------------------------------------------------- claims: dialogue scenes

\* An advance happens only in an update call where Space is held and
\* SpaceCooldown of dt has accumulated since the previous advance, if any.
advance_is_due(dt, space) ==
    /\ space
    /\ dialogue.space_press_count > 0 => told.since + dt >= SpaceCooldown

C17_JustPressedIsAnEdge ==
    [][ \A keys \in {polled'}, current_mouse \in {input'.mouse_pressed} :
          update_input_state(keys, current_mouse)
             => /\ \A k \in Keys :
                     /\ key_just_pressed(k)'
                           <=> (k \in key_codes_to_check /\ k \in keys /\ k \notin polled)
                     /\ key_just_released(k)'
                           <=> (k \in key_codes_to_check /\ k \in polled /\ k \notin keys)
                     /\ (key_just_pressed(k) /\ k \in keys) => ~key_just_pressed(k)'
                /\ \A k \in Keys : key_just_pressed(k)' => key_pressed(k)'
      ]_vars

\* One key is held from the call before, which reported it as just pressed,
\* while another one has just been pressed and a third has just been released.
C17_Witness ==
    /\ key_pressed("K_SPACE") /\ ~key_just_pressed("K_SPACE") /\ "K_SPACE" \in polled
    /\ key_just_pressed("K_a")
    /\ "K_RSHIFT" \in polled /\ ~key_pressed("K_RSHIFT")

\* ----------------------------------------------------------- claims: Button

left(event, type) == event.type = type /\ event.button = 1

\* What C18 says of the callback, of pressed becoming true and of a
\* disabled or invisible Button.
click_protocol(event) ==
    /\ clicked'.called
          => (left(event, "MOUSEBUTTONUP") /\ event.inside /\ button.pressed)
    /\ (button'.pressed /\ ~button.pressed)
          => (left(event, "MOUSEBUTTONDOWN") /\ event.inside)
    /\ (~button.enabled \/ ~button.visible)
          => (~clicked'.called /\ clicked'.value = "False")

releases(event) ==
    \/ left(event, "MOUSEBUTTONUP")
    \/ event.type = "MOUSEMOTION" /\ ~event.inside

\* C18 as stated: a Button invokes its callback only on a left
\* MOUSEBUTTONUP inside its rect while pressed is true, where pressed
\* becomes true only through a left MOUSEBUTTONDOWN inside the rect and is
\* cleared by every left release and by mouse motion outside the rect; a
\* disabled or invisible Button never invokes its callback and its
\* handle_event returns False.
C18_ClickProtocol ==
    [][ /\ \A event \in {clicked'.event} \cap ButtonEvents :
             button_handle_event(event)
                => /\ click_protocol(event)
                   /\ releases(event) => ~button'.pressed
        /\ (button'.pressed /\ ~button.pressed) => clicked'.event \in ButtonEvents
      ]_vars

\* C18 amended: pressed is cleared by every left release and by mouse
\* motion outside the rect that reaches the Button while it is enabled and
\* visible; a disabled or invisible Button leaves pressed as it is.
C18_ClickProtocolWhileEnabled ==
    [][ /\ \A event \in {clicked'.event} \cap ButtonEvents :
             button_handle_event(event)
                => /\ click_protocol(event)
                   /\ (releases(event) /\ button.enabled /\ button.visible)
                         => ~button'.pressed
                   /\ (~button.enabled \/ ~button.visible)
                         => button'.pressed = button.pressed
        /\ (button'.pressed /\ ~button.pressed) => clicked'.event \in ButtonEvents
      ]_vars

\* A left release has reached a disabled Button that was pressed: it
\* returned False and the Button is still pressed.
C18_Witness ==
    /\ left(clicked.event, "MOUSEBUTTONUP")
    /\ clicked.value = "False"
    /\ button.pressed
    /\ ~button.enabled

\* -------------------------------------------------------- claims: TextInput

\* C19: max_length is the maximum length of a TextInput's text: after any
\* sequence of handle_event, set_text, set_max_length and clear calls,
\* len(text) never exceeds max_length.
C19_TextWithinMaxLength ==
    Len(text_input.text) <= text_input.max_length

\* ------------------------------------------------------ claims: fact popups

\* At most one popup is visible, and fact_system_active is true exactly
\* when one is visible and exactly when current_fact is not None.
one_popup_while_active ==
    /\ Cardinality(visible(facts)) <= 1
    /\ facts.fact_system_active <=> visible(facts) # {}
    /\ facts.fact_system_active <=> facts.current_fact # "None"

\* The hello popup is visible only before any fact text has been, and only
\* while show_hello_first_time is true.
hello_first_only ==
    facts.hello_visible =>
        facts.show_hello_first_time /\ fact_seen \cap {"f1", "f2"} = {}

\* While fact_system_active is true a mouse event changes no popup, and
\* show_hello_first_time never becomes true again.
clicks_open_nothing ==
    /\ facts.fact_system_active /\ fact_event'.type \in
           {"MOUSEBUTTONDOWN", "MOUSEBUTTONUP", "MOUSEMOTION"}
         => /\ visible(facts') = visible(facts)
            /\ facts'.current_fact = facts.current_fact
            /\ facts'.fact_system_active
    /\ ~facts.show_hello_first_time => ~facts'.show_hello_first_time

\* C20: in every game scene's fact-popup logic at most one of hello_visible,
\* f1_text_visible and f2_text_visible is true at any time,
\* fact_system_active is true exactly when one of them is true and exactly
\* when current_fact is not None, while it is true clicks on the fact
\* buttons open nothing, and the hello popup appears only for the first
\* fact opened in a scene and never again after show_hello_first_time
\* becomes false.
C20_FactPopups ==
    /\ [](one_popup_while_active /\ hello_first_only)
    /\ [][clicks_open_nothing]_vars

\* A second fact is open, opened without the hello popup, and the last
\* event was a left release on the other fact button, which opened nothing.
C20_Witness ==
    /\ fact_seen = {"hello", "f1", "f2"}
    /\ facts.f2_text_visible /\ ~facts.show_hello_first_time
    /\ fact_event.type = "MOUSEBUTTONUP" /\ fact_event.button = 1
    /\ fact_event.at = "f1"

====
